---- MODULE Spec2Model ----
(***************************************************************************)
(* fish-nerf: the training loop (run.py), the surround renderer            *)
(* (utils/render.py) and the parts of the fish_nerf package they drive     *)
(* (pixel enumeration, ray sampler, volume renderer).                      *)
(*                                                                         *)
(* Four specifications share the variables below:                          *)
(*   Spec           train(cfg): create_model, the epoch loop, checkpoint,  *)
(*                  periodic render, and process restarts (resume)         *)
(*   SpecRender     render_images called directly by a caller              *)
(*   SpecComposite  the volume renderer's compositing rule                 *)
(*   SpecSampler    the stratified ray sampler                             *)
(***************************************************************************)
EXTENDS Integers, Sequences, FiniteSets, TLC

(* ------------------------------ bounds -------------------------------- *)
\* side of the square sensor grid (the code uses ShapeStruct(256, 256))
GridSize == 3
\* number of (image, pose) samples the training dataset may hold
MaxPoses == 2
\* number of parameter tensors optimizer.step updates one after the other
NumTensors == 2
\* number of times the training process is started (1 = no restart)
MaxRuns == 2
\* frames a direct caller of render_images may ask for
MaxImages == 2
\* samples per ray
MaxSamples == 3
\* local opacities are the fractions 0/AlphaScale .. AlphaScale/AlphaScale
AlphaScale == 4
\* each sampler bin is resolved into BinSteps sub-steps (draws 0..BinSteps-1)
BinSteps == 3
\* near and far are drawn from 1..MaxDepth
MaxDepth == 3

(* ------------------------- program constants -------------------------- *)
\* render_images(..., num_images=20) in train
NumRenderImages == 20

(* ------------------------ configuration inputs ------------------------ *)
NumEpochsChoices == {2, 3}
IntervalChoices == {1, 2}
FovChoices == {90, 135, 180}
VisStyles == {"random_pose", "trajectory"}
BatchSizeChoices == {1}

VARIABLES
  \* ---- the training process (run.py)
  cfg,               \* the hydra configuration, fixed for the whole behaviour
  valid_mask,        \* Model.valid_mask: the set of valid pixels
  params,            \* model parameters: tensor -> (epoch -> optimizer steps applied)
  optimizer,         \* [step, lr_epoch]: Adam step count, epoch index of the current lr
  start_epoch,
  epoch,
  pc,                \* position of train (or "direct": a direct caller of render_images)
  remaining,         \* dataset samples the shuffled loader has not yet yielded this epoch
  cur_tensor,        \* tensor optimizer.step is about to update (0: not stepping)
  seen_camera_poses,
  pixel_coords,      \* pixels of the most recently generated ray bundle
  read_params,       \* the parameter set the most recent forward pass read
  log,               \* this run's events per epoch: "ckpt", "render"
  resumed,           \* this run loaded a checkpoint
  runs,              \* number of process starts so far
  pixel_order,       \* the order in which get_pixels_from_image lists pixels
  \* ---- the disk
  ckpt,              \* the checkpoint file: <<>> (absent) or <<[model, optimizer, epoch]>>
  gifs,              \* gif files written by imageio.mimsave
  files,             \* per-frame png files written by plt.imsave (frame indices)
  \* ---- render_images (utils/render.py)
  r_pc,              \* "idle", "frame", "returned", "aborted"
  r_translation,
  r_num,
  r_save,
  all_images,
  \* ---- volume renderer
  c_alphas, c_weights, c_pc,
  \* ---- sampler
  s_near, s_far, s_n, s_depths, s_pc

procVars == <<cfg, pixel_order, valid_mask, params, optimizer, start_epoch, epoch, pc, remaining,
              cur_tensor, seen_camera_poses, log, resumed, runs, ckpt>>
fwdVars == <<pixel_coords, read_params>>
renderVars == <<r_pc, r_translation, r_num, r_save, all_images, files, gifs>>
compVars == <<c_alphas, c_weights, c_pc>>
sampVars == <<s_near, s_far, s_n, s_depths, s_pc>>
vars == <<procVars, fwdVars, renderVars, compVars, sampVars>>

(* ============================ helpers ================================= *)
RECURSIVE SumSeq(_)
SumSeq(s) == IF s = <<>> THEN 0 ELSE Head(s) + SumSeq(Tail(s))

RECURSIVE Pow(_, _)
Pow(b, e) == IF e = 0 THEN 1 ELSE b * Pow(b, e - 1)

Range(s) == {s[i] : i \in 1..Len(s)}

IsPrefix(s, t) == Len(s) <= Len(t) /\ \A i \in 1..Len(s) : s[i] = t[i]

(* ====================== volume renderer (C1) ========================== *)
(* Local opacities are alpha_i = c_alphas[i] / AlphaScale.  All values of *)
(* a ray with S samples are kept as numerators over AlphaScale^S, so the  *)
(* arithmetic is exact.                                                    *)

\* numerator of T_i = prod_{j<i} (1 - alpha_j), over AlphaScale^(i-1)
TransmittanceNoAbsorb(a, i) == Pow(AlphaScale, i - 1)
RECURSIVE Transmittance(_, _)
Transmittance(a, i) ==
  IF i = 1 THEN 1 ELSE Transmittance(a, i - 1) * (AlphaScale - a[i - 1])

\* numerator of w_i = T_i * alpha_i, over AlphaScale^Len(a)
Weight(a, i) == Transmittance(a, i) * a[i] * Pow(AlphaScale, Len(a) - i)

Weights(a) == [i \in 1..Len(a) |-> Weight(a, i)]

\* numerator of the accumulated opacity sum_i w_i, over AlphaScale^Len(a)
AccumulatedOpacity(w) == SumSeq(w)

AlphaSeqs == UNION {[1..n -> 0..AlphaScale] : n \in 1..MaxSamples}

CompIdle == c_alphas = <<>> /\ c_weights = <<>> /\ c_pc = "idle"

\* Model.forward -> renderer(sampler, implicit_fn, ray_bundle), one ray
Composite ==
  /\ c_pc = "start"
  /\ c_weights' = Weights(c_alphas)
  /\ c_pc' = "done"
  /\ UNCHANGED <<c_alphas, procVars, fwdVars, renderVars, sampVars>>

(* ========================== sampler (C2) ============================== *)
(* Depths are kept as numerators over 2 * s_n * BinSteps: bin i (0-based) of *)
(* [near, far] is [near + i*w, near + (i+1)*w) with w = (far - near)/n: the *)
(* bins partition the interval, each owning its lower edge.  A draw u is   *)
(* the point u/BinSteps of the way through its bin, a uniform draw from    *)
(* [0, 1): u = 0 is the bin's lower boundary, and the upper boundary       *)
(* belongs to the next bin.                                                *)

DepthScale(n) == 2 * n * BinSteps

DepthInBin(near, far, n, i, u) ==
  near * DepthScale(n) + 2 * (i * BinSteps + u) * (far - near)

RECURSIVE Insert(_, _)
Insert(x, s) ==
  IF s = <<>> THEN <<x>>
  ELSE IF x <= Head(s) THEN <<x>> \o s
  ELSE <<Head(s)>> \o Insert(x, Tail(s))

RECURSIVE SortAscending(_)
SortAscending(s) == IF s = <<>> THEN <<>> ELSE Insert(Head(s), SortAscending(Tail(s)))

\* stochastic mode: one draw per bin, then sorted ascending
StratifiedDepths(near, far, n, draws) ==
  SortAscending([i \in 1..n |-> DepthInBin(near, far, n, i - 1, draws[i])])

\* deterministic mode: the bin midpoints
MidpointDepths(near, far, n) ==
  [i \in 1..n |-> near * DepthScale(n) + (2 * (i - 1) + 1) * BinSteps * (far - near)]

SampIdle == s_near = 0 /\ s_far = 0 /\ s_n = 0 /\ s_depths = <<>> /\ s_pc = "idle"

\* the possible draws within a bin, in sub-steps
BinDrawsClosed == 0..BinSteps
BinDraws == 0..(BinSteps - 1)

SampleStochastic ==
  /\ s_pc = "start"
  /\ \E draws \in [1..s_n -> BinDraws] :
       s_depths' = StratifiedDepths(s_near, s_far, s_n, draws)
  /\ s_pc' = "stochastic"
  /\ UNCHANGED <<s_near, s_far, s_n, procVars, fwdVars, renderVars, compVars>>

SampleDeterministic ==
  /\ s_pc = "start"
  /\ s_depths' = MidpointDepths(s_near, s_far, s_n)
  /\ s_pc' = "deterministic"
  /\ UNCHANGED <<s_near, s_far, s_n, procVars, fwdVars, renderVars, compVars>>

StrictlyIncreasing(s) == \A i \in 1..(Len(s) - 1) : s[i] < s[i + 1]

WithinBounds(s, near, far, n) ==
  \A i \in 1..Len(s) : near * DepthScale(n) <= s[i] /\ s[i] <= far * DepthScale(n)

(* ===================== camera model and pixels ======================== *)
Pixels == (0..(GridSize - 1)) \X (0..(GridSize - 1))

\* LinearSphere.get_valid_mask: the pixels whose centre lies inside the image
\* circle of the lens; the circle of a 180 degree lens touches the sensor's
\* edges.  Coordinates are doubled so that pixel centres are integral.
get_valid_mask(fov) ==
  {p \in Pixels :
     ((2 * p[1] + 1 - GridSize) * (2 * p[1] + 1 - GridSize)
      + (2 * p[2] + 1 - GridSize) * (2 * p[2] + 1 - GridSize)) * 180 * 180
       <= GridSize * GridSize * fov * fov}

\* Model.__init__: self.valid_mask = self.camera_model.get_valid_mask()
ModelValidMaskFixedFov(c) == get_valid_mask(180)
ModelValidMask(c) == get_valid_mask(c.fov_degree)

\* the pixel grid in row-major order (the order numpy's boolean-mask
\* assignment fills an array in)
PixelSeq == [i \in 1..(GridSize * GridSize) |-> <<(i - 1) \div GridSize, (i - 1) % GridSize>>]
\* the pixel grid in column-major order
PixelSeqColumnMajor ==
  [i \in 1..(GridSize * GridSize) |-> <<(i - 1) % GridSize, (i - 1) \div GridSize>>]

\* the orders get_pixels_from_image may list the grid in: neither the
\* source at hand nor the specification fixes one
PixelOrders == {"row_major", "column_major"}

GridInOrder(order) == IF order = "row_major" THEN PixelSeq ELSE PixelSeqColumnMajor

InMask(mask, p) == p \in mask

\* fish_nerf.ray.get_pixels_from_image: every pixel of the grid, or with
\* filter_valid only those of the mask, each once, in the function's order
get_pixels_from_image(mask, filter_valid, order) ==
  IF filter_valid THEN SelectSeq(GridInOrder(order), LAMBDA p : InMask(mask, p))
  ELSE GridInOrder(order)

\* fish_nerf.ray.get_random_pixels_from_image: the possible batches of
\* batch_size pixels drawn from the valid region
get_random_pixels_from_image(batch_size, mask) == [1..batch_size -> mask]

\* render_images: get_pixels_from_image(camera_model, valid_mask=..., filter_valid=True)
RenderPixelCoordsUnfiltered(mask, order) == get_pixels_from_image(mask, FALSE, order)
RenderPixelCoords(mask, order) == get_pixels_from_image(mask, TRUE, order)

\* train: get_random_pixels_from_image(batch_size, image_size, camera_model, valid_mask=model.valid_mask)
TrainPixelBatches(c, mask) == get_random_pixels_from_image(c.batch_size, mask)

(* ============================ the model =============================== *)
Epochs(c) == 0..(c.num_epochs - 1)

FreshParams(c) == [t \in 1..NumTensors |-> [e \in Epochs(c) |-> 0]]

RECURSIVE SumUpTo(_, _)
SumUpTo(f, e) == IF e < 0 THEN 0 ELSE f[e] + SumUpTo(f, e - 1)

\* optimizer steps applied to tensor t of parameter set prm
StepsOf(prm, t) ==
  LET top == CHOOSE e \in DOMAIN prm[t] : \A d \in DOMAIN prm[t] : d <= e
  IN SumUpTo(prm[t], top)

\* the colour the renderer returns for the ray of pixel p in frame k at
\* translation tr under parameters prm: an uninterpreted value, encoded as a
\* positive number that is different for different rays, poses and parameters
Feature(p, k, tr, prm) ==
  1 + (p[1] * GridSize + p[2])
    + GridSize * GridSize
        * (k + (NumRenderImages + MaxImages) * (tr + (MaxPoses + 1) * StepsOf(prm, 1)))

\* Model.forward over a ray bundle: one feature per ray, in ray order
Forward(coords, k, tr, prm) == [j \in 1..Len(coords) |-> Feature(coords[j], k, tr, prm)]

Background == 0

\* number of mask pixels before p in the order given by seq
RankIn(seq, mask, p) ==
  LET pos == CHOOSE j \in 1..Len(seq) : seq[j] = p
  IN Cardinality({i \in 1..pos : seq[i] \in mask})

\* render_images: image = np.zeros(...); image[valid_mask == 1, :] = out["feature"]
\* boolean-mask assignment fills the mask's true entries in row-major order
Scatter(mask, feats) ==
  [p \in Pixels |-> IF p \in mask THEN feats[RankIn(PixelSeq, mask, p)] ELSE Background]

Configs ==
  [num_epochs : NumEpochsChoices,
   checkpoint_interval : IntervalChoices,
   render_interval : IntervalChoices,
   checkpoint_path : BOOLEAN,       \* TRUE: a non-empty path
   resume : BOOLEAN,
   vis_style : VisStyles,
   fov_degree : FovChoices,
   batch_size : BatchSizeChoices,
   dataset : 0..MaxPoses]           \* number of training samples; sample i has pose i

EmptyLog(c) == [e \in Epochs(c) |-> <<>>]

RenderIdle ==
  /\ r_pc = "idle" /\ r_translation = 0 /\ r_num = 0 /\ r_save = FALSE
  /\ all_images = <<>> /\ files = {} /\ gifs = {}

(* ======================= create_model (run.py) ======================== *)
CheckpointExists == ckpt # <<>>

\* model.load_state_dict(loaded_data["model"])
load_state_dict(loaded) == loaded.model

\* start_epoch = loaded_data["epoch"]
ResumeEpochNext(loaded) == loaded.epoch + 1
ResumeEpoch(loaded) == loaded.epoch

\* if cfg.training.resume and os.path.isfile(checkpoint_path), inside
\* if len(cfg.training.checkpoint_path) > 0
ShouldResume == cfg.checkpoint_path /\ cfg.resume /\ CheckpointExists

\* create_model after Model(cfg): load the checkpoint if asked to, build the
\* optimizer (its state restored on resume) and the LambdaLR scheduler, whose
\* constructor steps once from last_epoch = start_epoch - 1; then train's
\* set-up up to the epoch loop (dataset, seen_camera_poses = set())
CreateModel ==
  /\ pc = "create_model"
  /\ IF ShouldResume
       THEN /\ params' = load_state_dict(ckpt[1])
            /\ start_epoch' = ResumeEpoch(ckpt[1])
            /\ optimizer' = [step |-> ckpt[1].optimizer.step,
                             lr_epoch |-> ResumeEpoch(ckpt[1])]
            /\ resumed' = TRUE
       ELSE /\ start_epoch' = 0
            /\ optimizer' = [step |-> 0, lr_epoch |-> 0]
            /\ UNCHANGED <<params, resumed>>
  /\ epoch' = start_epoch'
  /\ seen_camera_poses' = {}
  /\ pc' = "epoch_start"
  /\ UNCHANGED <<cfg, pixel_order, valid_mask, remaining, cur_tensor, log, runs, ckpt>>
  /\ UNCHANGED <<fwdVars, renderVars, compVars, sampVars>>

(* ========================= train (run.py) ============================= *)
\* for epoch in range(start_epoch, cfg.training.num_epochs): the loop test,
\* and the shuffled loader of the epoch
EpochStart ==
  /\ pc = "epoch_start"
  /\ IF epoch < cfg.num_epochs
       THEN remaining' = 1..cfg.dataset /\ pc' = "iterate"
       ELSE remaining' = {} /\ pc' = "done"
  /\ UNCHANGED <<cfg, pixel_order, valid_mask, params, optimizer, start_epoch, epoch, cur_tensor,
                 seen_camera_poses, log, resumed, runs, ckpt>>
  /\ UNCHANGED <<fwdVars, renderVars, compVars, sampVars>>

\* seen_camera_poses.add(tuple(pose))
AddSeenReplacing(seen, pose) == {pose}
AddSeen(seen, pose) == seen \cup {pose}

\* one iteration up to loss.backward(): the loader yields a sample not yet
\* seen this epoch; its pose is recorded; a batch of pixels is drawn; the
\* rays are rendered (forward reads the parameters); the loss is
\* back-propagated
TrainIteration ==
  /\ pc = "iterate"
  /\ remaining # {}
  /\ \E i \in remaining :
       /\ remaining' = remaining \ {i}
       /\ seen_camera_poses' = AddSeen(seen_camera_poses, i)
  /\ \E batch \in TrainPixelBatches(cfg, valid_mask) : pixel_coords' = batch
  /\ read_params' = params
  /\ cur_tensor' = 1
  /\ pc' = "opt_step"
  /\ UNCHANGED <<cfg, pixel_order, valid_mask, params, optimizer, start_epoch, epoch, log, resumed,
                 runs, ckpt>>
  /\ UNCHANGED <<renderVars, compVars, sampVars>>

\* optimizer.step() has updated tensor t: is the step complete?
StepDoneEarly(t) == t >= 1
StepDone(t) == t = NumTensors

\* optimizer.step(): the tensors are updated one after the other; the
\* iteration ends when the last one is
OptimizerStep ==
  /\ pc = "opt_step"
  /\ params' = [params EXCEPT ![cur_tensor][epoch] = @ + 1]
  /\ IF StepDone(cur_tensor)
       THEN /\ optimizer' = [optimizer EXCEPT !.step = @ + 1]
            /\ cur_tensor' = 0
            /\ pc' = "iterate"
       ELSE /\ cur_tensor' = cur_tensor + 1
            /\ UNCHANGED <<optimizer, pc>>
  /\ UNCHANGED <<cfg, pixel_order, valid_mask, start_epoch, epoch, remaining, seen_camera_poses, log,
                 resumed, runs, ckpt>>
  /\ UNCHANGED <<fwdVars, renderVars, compVars, sampVars>>

\* lr_scheduler.step(), once the loader is exhausted
LrSchedulerStep ==
  /\ pc = "iterate"
  /\ remaining = {}
  /\ optimizer' = [optimizer EXCEPT !.lr_epoch = @ + 1]
  /\ pc' = "checkpoint"
  /\ UNCHANGED <<cfg, pixel_order, valid_mask, params, start_epoch, epoch, remaining, cur_tensor,
                 seen_camera_poses, log, resumed, runs, ckpt>>
  /\ UNCHANGED <<fwdVars, renderVars, compVars, sampVars>>

\* epoch % checkpoint_interval == 0 and len(checkpoint_path) > 0 and epoch > 0
ShouldCheckpointAtZero(c, e) == e % c.checkpoint_interval = 0 /\ c.checkpoint_path
ShouldCheckpoint(c, e) == e % c.checkpoint_interval = 0 /\ c.checkpoint_path /\ e > 0

\* epoch % render_interval == 0 and epoch > 0
ShouldRender(c, e) == e % c.render_interval = 0 /\ e > 0

\* data_to_store
CheckpointData == [model |-> params, optimizer |-> optimizer, epoch |-> epoch]

\* the checkpoint block: torch.save(data_to_store, checkpoint_path) if due
Checkpoint ==
  /\ pc = "checkpoint"
  /\ IF ShouldCheckpoint(cfg, epoch)
       THEN /\ ckpt' = <<CheckpointData>>
            /\ log' = [log EXCEPT ![epoch] = Append(@, "ckpt")]
       ELSE UNCHANGED <<ckpt, log>>
  /\ pc' = "render"
  /\ UNCHANGED <<cfg, pixel_order, valid_mask, params, optimizer, start_epoch, epoch, remaining,
                 cur_tensor, seen_camera_poses, resumed, runs>>
  /\ UNCHANGED <<fwdVars, renderVars, compVars, sampVars>>

\* the render block is not due: on to the next epoch
SkipRender ==
  /\ pc = "render"
  /\ ~ShouldRender(cfg, epoch)
  /\ epoch' = epoch + 1
  /\ pc' = "epoch_start"
  /\ UNCHANGED <<cfg, pixel_order, valid_mask, params, optimizer, start_epoch, remaining, cur_tensor,
                 seen_camera_poses, log, resumed, runs, ckpt>>
  /\ UNCHANGED <<fwdVars, renderVars, compVars, sampVars>>

\* vis_style == "random_pose": random.sample(list(seen_camera_poses), 1)[0]
\* raises ValueError on an empty set; otherwise render_images(model,
\* translation=random_pose[0:3], num_images=20) is entered
RenderRandomPose ==
  /\ pc = "render"
  /\ ShouldRender(cfg, epoch)
  /\ cfg.vis_style = "random_pose"
  /\ IF seen_camera_poses = {}
       THEN /\ pc' = "aborted"
            /\ UNCHANGED renderVars
       ELSE /\ \E pose \in seen_camera_poses : r_translation' = pose
            /\ r_num' = NumRenderImages
            /\ r_save' = FALSE
            /\ all_images' = <<>>
            /\ r_pc' = "frame"
            /\ pc' = "rendering"
            /\ UNCHANGED <<files, gifs>>
  /\ UNCHANGED <<cfg, pixel_order, valid_mask, params, optimizer, start_epoch, epoch, remaining,
                 cur_tensor, seen_camera_poses, log, resumed, runs, ckpt>>
  /\ UNCHANGED <<fwdVars, compVars, sampVars>>

\* vis_style == "trajectory": render_images_in_poses(model, train_dataset,
\* num_images=100, fix_heading=True); the function is not part of
\* utils/render.py as given and is taken to return its list of images
RenderTrajectory ==
  /\ pc = "render"
  /\ ShouldRender(cfg, epoch)
  /\ cfg.vis_style = "trajectory"
  /\ r_translation' = 0
  /\ r_num' = 0
  /\ r_save' = FALSE
  /\ all_images' = <<>>
  /\ r_pc' = "returned"
  /\ pc' = "rendering"
  /\ UNCHANGED <<files, gifs>>
  /\ UNCHANGED <<cfg, pixel_order, valid_mask, params, optimizer, start_epoch, epoch, remaining,
                 cur_tensor, seen_camera_poses, log, resumed, runs, ckpt>>
  /\ UNCHANGED <<fwdVars, compVars, sampVars>>

\* imageio.mimsave(f"results/training_{epoch}.gif", ...), the end of the
\* epoch's body; the locals of the finished render call are dropped
TrainMimsave ==
  /\ pc = "rendering"
  /\ r_pc = "returned"
  /\ gifs' = gifs \cup {<<"training", epoch>>}
  /\ log' = [log EXCEPT ![epoch] = Append(@, "render")]
  /\ epoch' = epoch + 1
  /\ pc' = "epoch_start"
  /\ r_pc' = "idle" /\ r_translation' = 0 /\ r_num' = 0 /\ all_images' = <<>>
  /\ UNCHANGED <<r_save, files>>
  /\ UNCHANGED <<cfg, pixel_order, valid_mask, params, optimizer, start_epoch, remaining, cur_tensor,
                 seen_camera_poses, resumed, runs, ckpt>>
  /\ UNCHANGED <<fwdVars, compVars, sampVars>>

(* ==================== render_images (utils/render.py) ================= *)
\* the body of the loop for frame theta_ix = Len(all_images): the valid
\* pixels are enumerated, their rays rendered, the colours scattered into a
\* zero image, the image appended and, with save, written to its own file;
\* after the last frame the list is returned
RenderFrame ==
  /\ r_pc = "frame"
  /\ LET k == Len(all_images)
         coords == RenderPixelCoords(valid_mask, pixel_order)
         feats == Forward(coords, k, r_translation, params)
         image == Scatter(valid_mask, feats)
     IN /\ pixel_coords' = coords
        /\ read_params' = params
        /\ all_images' = Append(all_images, image)
        /\ files' = IF r_save THEN files \cup {k} ELSE files
        /\ r_pc' = IF k + 1 = r_num THEN "returned" ELSE "frame"
  /\ UNCHANGED <<r_translation, r_num, r_save, gifs>>
  /\ UNCHANGED <<procVars, compVars, sampVars>>

\* a fatal error is raised inside the loop body of frame Len(all_images),
\* before its image is appended: the exception leaves render_images and,
\* uncaught, ends train
RenderFrameError ==
  /\ r_pc = "frame"
  /\ r_pc' = "aborted"
  /\ pc' = IF pc = "rendering" THEN "aborted" ELSE pc
  /\ UNCHANGED <<r_translation, r_num, r_save, all_images, files, gifs>>
  /\ UNCHANGED <<cfg, pixel_order, valid_mask, params, optimizer, start_epoch, epoch, remaining,
                 cur_tensor, seen_camera_poses, log, resumed, runs, ckpt>>
  /\ UNCHANGED <<fwdVars, compVars, sampVars>>

\* a caller other than train: render_images(model, translation, num_images, save)
\* with a translation and a frame count (run.py's render() passes a camera
\* list and an image shape instead, which np.linspace rejects before the
\* first frame)
CallRenderImages ==
  /\ pc = "direct"
  /\ r_pc = "idle"
  /\ \E tr \in 1..MaxPoses, n \in 1..MaxImages, sv \in BOOLEAN :
       /\ r_translation' = tr
       /\ r_num' = n
       /\ r_save' = sv
  /\ all_images' = <<>>
  /\ r_pc' = "frame"
  /\ UNCHANGED <<files, gifs>>
  /\ UNCHANGED <<procVars, fwdVars, compVars, sampVars>>

\* the caller writes the returned images: imageio.mimsave(...)
DirectMimsave ==
  /\ pc = "direct"
  /\ r_pc = "returned"
  /\ gifs' = gifs \cup {<<"direct">>}
  /\ r_pc' = "saved"
  /\ UNCHANGED <<r_translation, r_num, r_save, all_images, files>>
  /\ UNCHANGED <<procVars, fwdVars, compVars, sampVars>>

(* ============================ restart ================================= *)
\* the process ends (finished, failed or killed) and train(cfg) is started
\* again with the same configuration: a new Model is constructed; only the
\* disk survives
Restart ==
  /\ pc \notin {"direct", "create_model"}
  /\ runs < MaxRuns
  /\ runs' = runs + 1
  /\ valid_mask' = ModelValidMask(cfg)
  /\ params' = FreshParams(cfg)
  /\ optimizer' = [step |-> 0, lr_epoch |-> 0]
  /\ start_epoch' = 0
  /\ epoch' = 0
  /\ pc' = "create_model"
  /\ remaining' = {}
  /\ cur_tensor' = 0
  /\ seen_camera_poses' = {}
  /\ pixel_coords' = <<>>
  /\ read_params' = FreshParams(cfg)
  /\ log' = EmptyLog(cfg)
  /\ resumed' = FALSE
  /\ r_pc' = "idle" /\ r_translation' = 0 /\ r_num' = 0 /\ r_save' = FALSE
  /\ all_images' = <<>>
  /\ UNCHANGED <<cfg, pixel_order, ckpt, files, gifs>>
  /\ UNCHANGED <<compVars, sampVars>>

(* ========================= specifications ============================= *)
\* train(cfg) right after Model(cfg) was constructed, on an empty disk
Init ==
  /\ cfg \in Configs
  /\ pixel_order \in PixelOrders
  /\ valid_mask = ModelValidMask(cfg)
  /\ params = FreshParams(cfg)
  /\ optimizer = [step |-> 0, lr_epoch |-> 0]
  /\ start_epoch = 0
  /\ epoch = 0
  /\ pc = "create_model"
  /\ remaining = {}
  /\ cur_tensor = 0
  /\ seen_camera_poses = {}
  /\ pixel_coords = <<>>
  /\ read_params = FreshParams(cfg)
  /\ log = EmptyLog(cfg)
  /\ resumed = FALSE
  /\ runs = 1
  /\ ckpt = <<>>
  /\ RenderIdle
  /\ CompIdle
  /\ SampIdle

Next ==
  \/ CreateModel
  \/ EpochStart
  \/ TrainIteration
  \/ OptimizerStep
  \/ LrSchedulerStep
  \/ Checkpoint
  \/ SkipRender
  \/ RenderRandomPose
  \/ RenderTrajectory
  \/ RenderFrame
  \/ RenderFrameError
  \/ TrainMimsave
  \/ Restart

Spec == Init /\ [][Next]_vars

\* a caller holding a freshly constructed Model (as render(cfg) does)
RenderConfigs ==
  {c \in Configs : /\ c.num_epochs = 2 /\ c.checkpoint_interval = 1
                   /\ c.render_interval = 1 /\ ~c.checkpoint_path /\ ~c.resume
                   /\ c.vis_style = "random_pose" /\ c.dataset = 0
                   /\ c.batch_size = 1}

InitRender ==
  /\ cfg \in RenderConfigs
  /\ pixel_order \in PixelOrders
  /\ valid_mask = ModelValidMask(cfg)
  /\ params = FreshParams(cfg)
  /\ optimizer = [step |-> 0, lr_epoch |-> 0]
  /\ start_epoch = 0
  /\ epoch = 0
  /\ pc = "direct"
  /\ remaining = {}
  /\ cur_tensor = 0
  /\ seen_camera_poses = {}
  /\ pixel_coords = <<>>
  /\ read_params = FreshParams(cfg)
  /\ log = EmptyLog(cfg)
  /\ resumed = FALSE
  /\ runs = 1
  /\ ckpt = <<>>
  /\ RenderIdle
  /\ CompIdle
  /\ SampIdle

NextRender ==
  \/ CallRenderImages
  \/ RenderFrame
  \/ RenderFrameError
  \/ DirectMimsave

SpecRender == InitRender /\ [][NextRender]_vars

\* the renderer applied to one ray with every sequence of local opacities
ProcIdle ==
  /\ cfg = <<>> /\ pixel_order = "none" /\ valid_mask = {} /\ params = <<>> /\ optimizer = <<>>
  /\ start_epoch = 0 /\ epoch = 0 /\ pc = "none" /\ remaining = {} /\ cur_tensor = 0
  /\ seen_camera_poses = {} /\ pixel_coords = <<>> /\ read_params = <<>>
  /\ log = <<>> /\ resumed = FALSE /\ runs = 0 /\ ckpt = <<>>

InitComposite ==
  /\ c_alphas \in AlphaSeqs
  /\ c_weights = <<>>
  /\ c_pc = "start"
  /\ ProcIdle /\ RenderIdle /\ SampIdle

NextComposite == Composite

SpecComposite == InitComposite /\ [][NextComposite]_vars

\* the sampler applied to one ray with every near < far and sample count
InitSampler ==
  /\ s_near \in 1..MaxDepth
  /\ s_far \in 1..MaxDepth
  /\ s_near < s_far
  /\ s_n \in 1..MaxSamples
  /\ s_depths = <<>>
  /\ s_pc = "start"
  /\ ProcIdle /\ RenderIdle /\ CompIdle

NextSampler ==
  \/ SampleStochastic
  \/ SampleDeterministic

SpecSampler == InitSampler /\ [][NextSampler]_vars

(* ============================== claims ================================ *)

\* C1: for every ray, sample count S >= 1 and local opacities alpha_1..alpha_S
\* in [0,1], the accumulated opacity sum_i w_i with w_i = T_i * alpha_i and
\* T_i = prod_{j<i} (1 - alpha_j) is at least 0 and at most 1 (numerators
\* over AlphaScale^S).
C1_OpacityAtMostOne ==
  c_pc = "done" =>
    /\ Len(c_weights) = Len(c_alphas)
    /\ 0 <= AccumulatedOpacity(c_weights)
    /\ AccumulatedOpacity(c_weights) <= Pow(AlphaScale, Len(c_alphas))

\* a ray of several samples, some partly opaque, whose opacities add up to
\* more than 1 before compositing
C1_Witness ==
  /\ c_pc = "done"
  /\ Len(c_alphas) >= 2
  /\ \E i \in 1..Len(c_alphas) : c_alphas[i] \notin {0, AlphaScale}
  /\ SumSeq(c_alphas) > AlphaScale
  /\ AccumulatedOpacity(c_weights) > 0

\* C2: for any near < far and num_samples >= 1, in stochastic mode (every
\* possible draw, draws on bin boundaries included) and in deterministic
\* mode, the depths of a ray are strictly increasing and lie in [near, far].
C2_DepthsStrictlyIncreasing ==
  s_pc \in {"stochastic", "deterministic"} =>
    /\ Len(s_depths) = s_n
    /\ StrictlyIncreasing(s_depths)
    /\ WithinBounds(s_depths, s_near, s_far, s_n)

\* a stochastic sample whose draw in some bin lies on the bin's boundary,
\* right after the last possible draw of the bin before it
C2_Witness ==
  /\ s_pc = "stochastic"
  /\ s_n >= 2
  /\ \E i \in 2..s_n :
       /\ s_depths[i] = DepthInBin(s_near, s_far, s_n, i - 1, 0)
       /\ s_depths[i - 1] = DepthInBin(s_near, s_far, s_n, i - 2, BinSteps - 1)

\* C3: every pixel a ray is generated for, in a training iteration or in a
\* frame of render_images, is a pixel of the validity mask.
C3_RaysOnlyForValidPixels == Range(pixel_coords) \subseteq valid_mask

\* a frame was rendered, after training iterations, under a mask that
\* excludes some pixels
C3_Witness ==
  /\ pc = "rendering"
  /\ Len(all_images) >= 1
  /\ pixel_coords # <<>>
  /\ cfg.dataset > 0
  /\ valid_mask # Pixels

AlignedParams(prm) == \A t \in 1..NumTensors : StepsOf(prm, t) = StepsOf(prm, 1)

C5_Serialized ==
  /\ AlignedParams(read_params)
  /\ (pc = "opt_step" /\ cur_tensor = 1) => read_params = params
  /\ pc = "opt_step" => r_pc = "idle"
  /\ r_pc = "frame" => (pc = "rendering" /\ cur_tensor = 0)

\* C5 as stated: within an execution of train the parameters are written
\* only by optimizer.step, after the iteration's forward and backward pass,
\* never by a render, and every render reads the result of a whole number of
\* completed optimizer steps.
C5_OnlyOptimizerStepWrites ==
  /\ [][(runs' = runs /\ params' # params) => pc = "opt_step"]_vars
  /\ []C5_Serialized

\* C5 as amended: the parameters are written only by optimizer.step and, on
\* resume, once by load_state_dict in create_model before the loop starts;
\* never by a render, and every render reads the result of a whole number of
\* completed optimizer steps.
C5_ParamsWrittenBySteps ==
  /\ [][(runs' = runs /\ params' # params) =>
          (pc = "opt_step" \/ (pc = "create_model" /\ resumed'))]_vars
  /\ []C5_Serialized

\* a resumed run renders a frame with trained parameters
C5_Witness ==
  /\ resumed
  /\ pc = "rendering"
  /\ Len(all_images) >= 1
  /\ StepsOf(read_params, 1) >= 2
  /\ read_params = params

\* C6: the validity mask is computed from the camera configuration when the
\* Model is constructed and is the same in every later state; training,
\* checkpointing, resuming and rendering leave it alone, and the pixel
\* sampling, the enumeration and the scatter all use it.
C6_ValidMaskFixed ==
  /\ [](/\ valid_mask = get_valid_mask(cfg.fov_degree)
        /\ Range(pixel_coords) \subseteq valid_mask
        /\ \A k \in 1..Len(all_images) :
             {p \in Pixels : all_images[k][p] # 0} \subseteq valid_mask)
  /\ [][valid_mask' = valid_mask /\ cfg' = cfg]_vars

\* a resumed run has rendered all its frames under a mask that excludes
\* some pixels
C6_Witness ==
  /\ resumed
  /\ runs >= 2
  /\ pc = "rendering"
  /\ r_pc = "returned"
  /\ Len(all_images) = NumRenderImages
  /\ valid_mask # Pixels

\* C7: if a fatal error occurs while rendering a frame, no image output of
\* that render step exists: no gif and no per-frame file, also with
\* save=True.
C7_NoOutputOnAbort == r_pc = "aborted" => (gifs = {} /\ files = {})

\* epoch e's loop body has been executed by this run
EpochTrained(e) ==
  \/ epoch > e
  \/ epoch = e /\ pc \in {"checkpoint", "render", "rendering", "aborted"}

\* C8: a checkpoint is written at the end of epoch e, after all of e's
\* optimizer steps and the scheduler step, with epoch field e; a run resumed
\* from it starts its loop at e and walks e, e+1, ..., so epoch e is trained
\* a second time on the restored parameters.
C8_ResumeRepeatsEpoch ==
  /\ [][ckpt' # ckpt =>
          /\ pc = "checkpoint"
          /\ remaining = {}
          /\ cur_tensor = 0
          /\ optimizer.lr_epoch = epoch + 1
          /\ \A t \in 1..NumTensors : params[t][epoch] >= cfg.dataset
          /\ ckpt' = <<[model |-> params, optimizer |-> optimizer, epoch |-> epoch]>>]_vars
  /\ [][(pc = "create_model" /\ resumed') =>
          /\ start_epoch' = ckpt[1].epoch
          /\ epoch' = ckpt[1].epoch
          /\ params' = ckpt[1].model]_vars
  /\ [][(runs' = runs /\ pc # "create_model" /\ epoch' # epoch) => epoch' = epoch + 1]_vars
  /\ [](resumed =>
          /\ ckpt # <<>>
          /\ 0 < start_epoch /\ start_epoch <= ckpt[1].epoch
          /\ start_epoch <= epoch
          /\ (start_epoch < cfg.num_epochs /\ EpochTrained(start_epoch)) =>
               \A t \in 1..NumTensors : params[t][start_epoch] >= 2 * cfg.dataset)

\* a resumed run has finished, having trained its first epoch again
C8_Witness ==
  /\ resumed
  /\ pc = "done"
  /\ cfg.dataset >= 2
  /\ start_epoch < cfg.num_epochs - 1
  /\ params[1][start_epoch] = 2 * cfg.dataset
  /\ params[1][cfg.num_epochs - 1] = cfg.dataset

\* what the end of epoch e produces, in order
ExpectedEvents(e) ==
  (IF e > 0 /\ e % cfg.checkpoint_interval = 0 /\ cfg.checkpoint_path
     THEN <<"ckpt">> ELSE <<>>)
  \o (IF e > 0 /\ e % cfg.render_interval = 0 THEN <<"render">> ELSE <<>>)

\* C9: for every epoch e from start_epoch on that the run completes, a
\* checkpoint is written iff e > 0, e is a multiple of checkpoint_interval
\* and checkpoint_path is non-empty, and a render is produced iff e > 0 and
\* e is a multiple of render_interval; the checkpoint comes before the
\* render, and neither happens at epoch 0.
C9_CheckpointAndRenderSchedule ==
  pc # "none" =>
    /\ \A e \in Epochs(cfg) :
         /\ IsPrefix(log[e], ExpectedEvents(e))
         /\ (e >= start_epoch /\ epoch > e) => log[e] = ExpectedEvents(e)
         /\ (e < start_epoch \/ e > epoch) => log[e] = <<>>
         /\ (\E i \in 1..Len(log[e]) : log[e][i] = "render") => <<"training", e>> \in gifs
         /\ (\E i \in 1..Len(log[e]) : log[e][i] = "ckpt") =>
              (ckpt # <<>> /\ ckpt[1].epoch >= e)
    /\ log[0] = <<>>
    /\ \A g \in gifs : g[1] = "training" => (g[2] > 0 /\ g[2] % cfg.render_interval = 0)
    /\ ckpt # <<>> =>
         /\ cfg.checkpoint_path
         /\ ckpt[1].epoch > 0
         /\ ckpt[1].epoch % cfg.checkpoint_interval = 0

\* a finished run with an epoch past 0 that produced nothing and an epoch
\* that produced a checkpoint and then a render
C9_Witness ==
  /\ pc = "done"
  /\ start_epoch = 0
  /\ \E e \in Epochs(cfg) : e > 0 /\ log[e] = <<>>
  /\ \E e \in Epochs(cfg) : log[e] = <<"ckpt", "render">>

\* C10: with vis_style random_pose and a non-empty training dataset, when
\* the periodic render runs the set of seen poses is non-empty and the pose
\* rendered is one a training iteration of the same run added to it (also
\* after a resume, where the set starts empty); the set only grows.
C10_RandomPoseWasSeen ==
  /\ []((pc # "none" /\ cfg.vis_style = "random_pose" /\ cfg.dataset > 0) =>
          /\ seen_camera_poses \subseteq 1..cfg.dataset
          /\ ~(pc = "aborted" /\ r_pc = "idle")
          /\ pc = "rendering" =>
               /\ seen_camera_poses # {}
               /\ r_translation \in seen_camera_poses)
  /\ [][runs' = runs => seen_camera_poses \subseteq seen_camera_poses']_vars
  /\ [][(runs' # runs \/ pc = "create_model") => seen_camera_poses' = {}]_vars

\* a resumed run renders at a pose it has seen since the resume
C10_Witness ==
  /\ cfg.vis_style = "random_pose"
  /\ resumed
  /\ pc = "rendering"
  /\ r_pc = "frame"
  /\ Cardinality(seen_camera_poses) >= 2
  /\ r_translation \in seen_camera_poses

====
